---- MODULE Spec2Model ----
(***************************************************************************)
(* A model of the serialport crate root (src/lib.rs): the BaudRate         *)
(* conversions, the Error <-> io::Error conversions, the default settings  *)
(* and the platform-dispatching front door (open, open_with_settings,      *)
(* available_ports, available_baud_rates).                                 *)
(*                                                                         *)
(* The crate root keeps no state of its own.  The state of the model is    *)
(* the build configuration (platform), the host the calls run on (host),   *)
(* the value the caller starts from (input), the value the caller holds    *)
(* now (val) and the calls made so far (hist).  The platform modules own   *)
(* native descriptors: fds lists every descriptor the host has handed out  *)
(* and portfd is the one the caller's open port owns (0: it holds none).   *)
(***************************************************************************)
EXTENDS Integers, Sequences, FiniteSets, TLC

VARIABLES platform, host, input, val, hist, fds, portfd

vars == <<platform, host, input, val, hist, fds, portfd>>

(***************************************************************************)
(* Bounds of the model.                                                    *)
(***************************************************************************)
\* the longest sequence of calls one caller makes
MaxCalls == 3
\* how far around each named rate (and around 0) the speeds are drawn from
Delta == 1

(***************************************************************************)
(* enum BaudRate.  A named variant carries no payload, BaudOther carries   *)
(* its usize.                                                              *)
(***************************************************************************)
NamedVariants ==
    {"Baud110", "Baud300", "Baud600", "Baud1200", "Baud2400", "Baud4800",
     "Baud9600", "Baud19200", "Baud38400", "Baud57600", "Baud115200"}

Named(v) == [variant |-> v]

BaudOther(n) == [variant |-> "BaudOther", n |-> n]

\* from_speed with the arms of 19200 and 38400 exchanged
from_speed_swapped(speed) ==
    CASE speed = 110 -> Named("Baud110")
      [] speed = 300 -> Named("Baud300")
      [] speed = 600 -> Named("Baud600")
      [] speed = 1200 -> Named("Baud1200")
      [] speed = 2400 -> Named("Baud2400")
      [] speed = 4800 -> Named("Baud4800")
      [] speed = 9600 -> Named("Baud9600")
      [] speed = 19200 -> Named("Baud38400")
      [] speed = 38400 -> Named("Baud19200")
      [] speed = 57600 -> Named("Baud57600")
      [] speed = 115200 -> Named("Baud115200")
      [] OTHER -> BaudOther(speed)

\* from_speed that takes every speed above the fastest named rate for it
from_speed_clamped(speed) ==
    CASE speed = 110 -> Named("Baud110")
      [] speed = 300 -> Named("Baud300")
      [] speed = 600 -> Named("Baud600")
      [] speed = 1200 -> Named("Baud1200")
      [] speed = 2400 -> Named("Baud2400")
      [] speed = 4800 -> Named("Baud4800")
      [] speed = 9600 -> Named("Baud9600")
      [] speed = 19200 -> Named("Baud19200")
      [] speed = 38400 -> Named("Baud38400")
      [] speed = 57600 -> Named("Baud57600")
      [] speed >= 115200 -> Named("Baud115200")
      [] OTHER -> BaudOther(speed)

\* BaudRate::from_speed
from_speed(speed) ==
    CASE speed = 110 -> Named("Baud110")
      [] speed = 300 -> Named("Baud300")
      [] speed = 600 -> Named("Baud600")
      [] speed = 1200 -> Named("Baud1200")
      [] speed = 2400 -> Named("Baud2400")
      [] speed = 4800 -> Named("Baud4800")
      [] speed = 9600 -> Named("Baud9600")
      [] speed = 19200 -> Named("Baud19200")
      [] speed = 38400 -> Named("Baud38400")
      [] speed = 57600 -> Named("Baud57600")
      [] speed = 115200 -> Named("Baud115200")
      [] OTHER -> BaudOther(speed)

\* speed with the digits of 57600 transposed
speed_typo(self) ==
    CASE self.variant = "Baud110" -> 110
      [] self.variant = "Baud300" -> 300
      [] self.variant = "Baud600" -> 600
      [] self.variant = "Baud1200" -> 1200
      [] self.variant = "Baud2400" -> 2400
      [] self.variant = "Baud4800" -> 4800
      [] self.variant = "Baud9600" -> 9600
      [] self.variant = "Baud19200" -> 19200
      [] self.variant = "Baud38400" -> 38400
      [] self.variant = "Baud57600" -> 56700
      [] self.variant = "Baud115200" -> 115200
      [] self.variant = "BaudOther" -> self.n

\* BaudRate::speed
speed(self) ==
    CASE self.variant = "Baud110" -> 110
      [] self.variant = "Baud300" -> 300
      [] self.variant = "Baud600" -> 600
      [] self.variant = "Baud1200" -> 1200
      [] self.variant = "Baud2400" -> 2400
      [] self.variant = "Baud4800" -> 4800
      [] self.variant = "Baud9600" -> 9600
      [] self.variant = "Baud19200" -> 19200
      [] self.variant = "Baud38400" -> 38400
      [] self.variant = "Baud57600" -> 57600
      [] self.variant = "Baud115200" -> 115200
      [] self.variant = "BaudOther" -> self.n

(***************************************************************************)
(* The speeds and the baud rates a caller is given: every named rate, its  *)
(* neighbours, 0 and the documentation's 4,000,000.  Neither function does *)
(* arithmetic on the usize, so its width plays no part.                    *)
(***************************************************************************)
NamedSpeeds == {110, 300, 600, 1200, 2400, 4800, 9600, 19200, 38400, 57600, 115200}

Speeds ==
    { s \in UNION { (r - Delta)..(r + Delta) : r \in NamedSpeeds \cup {0, 4000000} } :
        s >= 0 }

BaudRates == { Named(v) : v \in NamedVariants } \cup { BaudOther(n) : n \in Speeds }

(***************************************************************************)
(* std::io::ErrorKind, as matched by ErrorKind::Io.                        *)
(***************************************************************************)
IoErrorKinds ==
    {"NotFound", "PermissionDenied", "ConnectionRefused", "ConnectionReset",
     "ConnectionAborted", "NotConnected", "AddrInUse", "AddrNotAvailable",
     "BrokenPipe", "AlreadyExists", "WouldBlock", "InvalidInput", "InvalidData",
     "TimedOut", "WriteZero", "Interrupted", "Other", "UnexpectedEof"}

(***************************************************************************)
(* std::io::Error: either a custom error made by io::Error::new(kind, msg) *)
(* or an error of the operating system, whose kind is decoded from its     *)
(* code.                                                                   *)
(***************************************************************************)
IoErrorNew(kind, msg) == [kind |-> kind, repr |-> "Custom", msg |-> msg]

OsCodes == {2, 13, 25}

OsKind(code) ==
    CASE code = 2 -> "NotFound"
      [] code = 13 -> "PermissionDenied"
      [] OTHER -> "Other"

OsMessage(code) ==
    CASE code = 2 -> "No such file or directory"
      [] code = 13 -> "Permission denied"
      [] OTHER -> "Inappropriate ioctl for device"

IoErrorFromOs(code) == [kind |-> OsKind(code), repr |-> "Os", code |-> code]

\* format!("{}", io_error)
IoErrorDisplay(io_error) ==
    IF io_error.repr = "Custom"
    THEN io_error.msg
    ELSE OsMessage(io_error.code) \o " (os error " \o ToString(io_error.code) \o ")"

(***************************************************************************)
(* enum ErrorKind and struct Error.                                        *)
(***************************************************************************)
NoDevice == [tag |-> "NoDevice"]

InvalidInput == [tag |-> "InvalidInput"]

Unknown == [tag |-> "Unknown"]

Io(kind) == [tag |-> "Io", io |-> kind]

ErrorKinds == {NoDevice, InvalidInput, Unknown} \cup { Io(k) : k \in IoErrorKinds }

\* Error::new
ErrorNew(kind, description) == [kind |-> kind, description |-> description]

\* From<io::Error> that folds the kinds ErrorKind has a variant for
ErrorFromIoError_folded(io_error) ==
    ErrorNew(CASE io_error.kind = "NotFound" -> NoDevice
               [] io_error.kind = "InvalidInput" -> InvalidInput
               [] OTHER -> Io(io_error.kind),
             IoErrorDisplay(io_error))

\* From<io::Error> that takes the text of Error::description(), which for an
\* error of the operating system names the kind only
ErrorFromIoError_description(io_error) ==
    ErrorNew(Io(io_error.kind),
             IF io_error.repr = "Custom"
             THEN io_error.msg
             ELSE CASE io_error.kind = "NotFound" -> "entity not found"
                    [] io_error.kind = "PermissionDenied" -> "permission denied"
                    [] OTHER -> "other os error")

\* impl From<io::Error> for Error
ErrorFromIoError(io_error) ==
    ErrorNew(Io(io_error.kind), IoErrorDisplay(io_error))

\* From<Error> that drops the wrapped kind
IoErrorFromError_other(error) ==
    LET kind == CASE error.kind = NoDevice -> "NotFound"
                  [] error.kind = InvalidInput -> "InvalidInput"
                  [] error.kind = Unknown -> "Other"
                  [] error.kind.tag = "Io" -> "Other"
    IN  IoErrorNew(kind, error.description)

\* From<Error> that takes NoDevice for an unknown error
IoErrorFromError_nodev(error) ==
    LET kind == CASE error.kind = NoDevice -> "Other"
                  [] error.kind = InvalidInput -> "InvalidInput"
                  [] error.kind = Unknown -> "Other"
                  [] error.kind.tag = "Io" -> error.kind.io
    IN  IoErrorNew(kind, error.description)

\* impl From<Error> for io::Error
IoErrorFromError(error) ==
    LET kind == CASE error.kind = NoDevice -> "NotFound"
                  [] error.kind = InvalidInput -> "InvalidInput"
                  [] error.kind = Unknown -> "Other"
                  [] error.kind.tag = "Io" -> error.kind.io
    IN  IoErrorNew(kind, error.description)

(***************************************************************************)
(* The errors a caller is given.                                           *)
(***************************************************************************)
IoErrors ==
    { IoErrorNew(k, "custom failure") : k \in IoErrorKinds }
        \cup { IoErrorFromOs(c) : c \in OsCodes }

Errors == { ErrorNew(k, "port failure") : k \in ErrorKinds }

(***************************************************************************)
(* struct SerialPortSettings and its Default.  A Duration is whole seconds *)
(* plus nanoseconds, as Duration::from_millis builds it.                   *)
(***************************************************************************)
DurationFromMillis(millis) ==
    [secs |-> millis \div 1000, nanos |-> (millis % 1000) * 1000000]

\* Default with a timeout of one second
SerialPortSettingsDefault_secs ==
    [baud_rate |-> Named("Baud9600"),
     data_bits |-> "Eight",
     flow_control |-> "None",
     parity |-> "None",
     stop_bits |-> "One",
     timeout |-> DurationFromMillis(1000)]

\* impl Default for SerialPortSettings
SerialPortSettingsDefault ==
    [baud_rate |-> Named("Baud9600"),
     data_bits |-> "Eight",
     flow_control |-> "None",
     parity |-> "None",
     stop_bits |-> "One",
     timeout |-> DurationFromMillis(1)]

(***************************************************************************)
(* Values are tagged with their type, so that a call is only made on an    *)
(* argument of the type its signature asks for.                            *)
(***************************************************************************)
Usize(n) == [ty |-> "usize", int |-> n]

Baud(b) == [ty |-> "BaudRate", baud |-> b]

IoErr(e) == [ty |-> "io::Error", io_error |-> e]

Err(e) == [ty |-> "Error", error |-> e]

Port(p) == [ty |-> "path", path |-> p]

Unit == [ty |-> "unit"]

Settings(s) == [ty |-> "SerialPortSettings", settings |-> s]

\* Result::Ok, Result::Err and Vec
ResultOk(v) == [ty |-> "Ok", ok |-> v]

ResultErr(e) == [ty |-> "Err", err |-> e]

Vec(items) == [ty |-> "Vec", items |-> items]

Call(fn, arg, ret) == [fn |-> fn, arg |-> arg, ret |-> ret]

\* a front-door call, with the platform function it handed the work to
DoorCall(fn, arg, out) ==
    [fn |-> fn, arg |-> arg, ret |-> out.ret, dispatch |-> out.dispatch]

(***************************************************************************)
(* The host: which device paths are serial devices, and whether its        *)
(* termios takes a baud rate that is not a standard one.                   *)
(***************************************************************************)
Paths == {"/dev/ttyS1", "/dev/ttyUSB0"}

PathOrder == <<"/dev/ttyS1", "/dev/ttyUSB0">>

Hosts ==
    [devices : [Paths -> {"tty", "absent"}], custom_baud : BOOLEAN]

(***************************************************************************)
(* The platform modules (posix, windows).                                  *)
(***************************************************************************)
\* an open port: the device it is attached to and the settings applied
Handle(impl, path, settings) ==
    [impl |-> impl, port_name |-> path, settings |-> settings]

\* posix::TTYPort::open
TTYPortOpen(path, settings, h) ==
    IF h.devices[path] = "absent"
    THEN ResultErr(ErrorNew(NoDevice, "No such file or directory"))
    ELSE IF settings.baud_rate.variant = "BaudOther" /\ ~h.custom_baud
    THEN ResultErr(ErrorNew(InvalidInput, "Invalid argument"))
    ELSE ResultOk(Handle("TTYPort", path, settings))

\* windows::COMPort::open
COMPortOpen(path, settings, h) ==
    IF h.devices[path] = "absent"
    THEN ResultErr(ErrorNew(NoDevice, "The system cannot find the file specified."))
    ELSE ResultOk(Handle("COMPort", path, settings))

(***************************************************************************)
(* The native descriptors behind the ports.  Each entry of the table is    *)
(* one descriptor the host handed out: the device it is open on, the line  *)
(* settings and RTS level of the device, and how many times it was closed. *)
(***************************************************************************)
Descriptor(path, settings) ==
    [path |-> path, settings |-> settings, rts |-> FALSE, closes |-> 0]

\* close(fd)
Close(table, fd) == [table EXCEPT ![fd].closes = @ + 1]

\* posix::TTYPort::open that returns the error of a failed configuration
\* without closing the descriptor it opened
TTYPortOpenDescriptors_leak(path, settings, h, table) ==
    IF h.devices[path] = "absent"
    THEN table
    ELSE Append(table, Descriptor(path, settings))

\* posix::TTYPort::open, what it does to the descriptor table: nothing when
\* the device cannot be opened; a descriptor opened and closed again when the
\* settings cannot be applied; a descriptor opened and left to the port
\* otherwise
TTYPortOpenDescriptors(path, settings, h, table) ==
    IF h.devices[path] = "absent"
    THEN table
    ELSE IF settings.baud_rate.variant = "BaudOther" /\ ~h.custom_baud
    THEN Close(Append(table, Descriptor(path, settings)), Len(table) + 1)
    ELSE Append(table, Descriptor(path, settings))

\* windows::COMPort::open, what it does to the handle table
COMPortOpenDescriptors(path, settings, h, table) ==
    IF h.devices[path] = "absent"
    THEN table
    ELSE Append(table, Descriptor(path, settings))

\* the descriptor table after the platform call a front-door function made
PlatformOpenDescriptors(dispatch, h, table) ==
    CASE dispatch.target = "posix::TTYPort::open" ->
           TTYPortOpenDescriptors(dispatch.path, dispatch.settings, h, table)
      [] dispatch.target = "windows::COMPort::open" ->
           COMPortOpenDescriptors(dispatch.path, dispatch.settings, h, table)
      [] OTHER -> table

\* SerialPort::set_baud_rate of the platform's port
PortSetBaudRate(cfg, baud_rate, h) ==
    IF cfg = "unix" /\ baud_rate.variant = "BaudOther" /\ ~h.custom_baud
    THEN ResultErr(ErrorNew(InvalidInput, "Invalid argument"))
    ELSE ResultOk(Unit)

SerialPortInfo(path) == [port_name |-> path, port_type |-> "Unknown"]

\* posix::available_ports and windows::available_ports
PlatformAvailablePorts(h) ==
    LET present == SelectSeq(PathOrder, LAMBDA p : h.devices[p] = "tty")
    IN  ResultOk(Vec([i \in 1..Len(present) |-> SerialPortInfo(present[i])]))

\* posix::available_baud_rates and windows::available_baud_rates
PlatformAvailableBaudRates ==
    Vec(<<110, 300, 600, 1200, 2400, 4800, 9600, 19200, 38400, 57600, 115200>>)

(***************************************************************************)
(* The front door.  Each function is compiled to the one branch its cfg    *)
(* attributes select.  Path::new(port) views the same string as a Path, so *)
(* the platform function is handed the caller's path in every branch.      *)
(***************************************************************************)
Dispatch(target, path, settings) ==
    [target |-> target, path |-> path, settings |-> settings]

NoDispatch == [target |-> "none"]

\* open with settings of its own instead of the default ones
open_fast(cfg, port, h) ==
    LET fast == [SerialPortSettingsDefault EXCEPT !.baud_rate = Named("Baud115200")]
    IN  CASE cfg = "unix" ->
               [dispatch |-> Dispatch("posix::TTYPort::open", port, fast),
                ret |-> TTYPortOpen(port, fast, h)]
          [] cfg = "windows" ->
               [dispatch |-> Dispatch("windows::COMPort::open", port, fast),
                ret |-> COMPortOpen(port, fast, h)]
          [] OTHER ->
               [dispatch |-> NoDispatch,
                ret |-> ResultErr(ErrorNew(Unknown, "open() not implemented for platform"))]

\* open
open(cfg, port, h) ==
    CASE cfg = "unix" ->
           [dispatch |-> Dispatch("posix::TTYPort::open", port, SerialPortSettingsDefault),
            ret |-> TTYPortOpen(port, SerialPortSettingsDefault, h)]
      [] cfg = "windows" ->
           [dispatch |-> Dispatch("windows::COMPort::open", port, SerialPortSettingsDefault),
            ret |-> COMPortOpen(port, SerialPortSettingsDefault, h)]
      [] OTHER ->
           [dispatch |-> NoDispatch,
            ret |-> ResultErr(ErrorNew(Unknown, "open() not implemented for platform"))]

\* open_with_settings
open_with_settings(cfg, port, settings, h) ==
    CASE cfg = "unix" ->
           [dispatch |-> Dispatch("posix::TTYPort::open", port, settings),
            ret |-> TTYPortOpen(port, settings, h)]
      [] cfg = "windows" ->
           [dispatch |-> Dispatch("windows::COMPort::open", port, settings),
            ret |-> COMPortOpen(port, settings, h)]
      [] OTHER ->
           [dispatch |-> NoDispatch,
            ret |-> ResultErr(ErrorNew(Unknown, "open() not implemented for platform"))]

\* available_ports that lists nothing where it has no implementation
available_ports_empty(cfg, h) ==
    CASE cfg = "unix" ->
           [dispatch |-> [target |-> "posix::available_ports"],
            ret |-> PlatformAvailablePorts(h)]
      [] cfg = "windows" ->
           [dispatch |-> [target |-> "windows::available_ports"],
            ret |-> PlatformAvailablePorts(h)]
      [] OTHER ->
           [dispatch |-> NoDispatch, ret |-> ResultOk(Vec(<<>>))]

\* available_ports
available_ports(cfg, h) ==
    CASE cfg = "unix" ->
           [dispatch |-> [target |-> "posix::available_ports"],
            ret |-> PlatformAvailablePorts(h)]
      [] cfg = "windows" ->
           [dispatch |-> [target |-> "windows::available_ports"],
            ret |-> PlatformAvailablePorts(h)]
      [] OTHER ->
           [dispatch |-> NoDispatch,
            ret |-> ResultErr(ErrorNew(Unknown,
                        "available_ports() not implemented for platform"))]

\* available_baud_rates that answers with the POSIX list on every platform
available_baud_rates_posix(cfg) ==
    CASE cfg = "windows" ->
           [dispatch |-> [target |-> "windows::available_baud_rates"],
            ret |-> PlatformAvailableBaudRates]
      [] OTHER ->
           [dispatch |-> [target |-> "posix::available_baud_rates"],
            ret |-> PlatformAvailableBaudRates]

\* available_baud_rates
available_baud_rates(cfg) ==
    CASE cfg = "unix" ->
           [dispatch |-> [target |-> "posix::available_baud_rates"],
            ret |-> PlatformAvailableBaudRates]
      [] cfg = "windows" ->
           [dispatch |-> [target |-> "windows::available_baud_rates"],
            ret |-> PlatformAvailableBaudRates]
      [] OTHER ->
           [dispatch |-> NoDispatch, ret |-> Vec(<<>>)]

(***************************************************************************)
(* The settings a caller passes to open_with_settings: the documented      *)
(* example and variations of it.                                           *)
(***************************************************************************)
ExampleSettings ==
    [baud_rate |-> Named("Baud9600"),
     data_bits |-> "Eight",
     flow_control |-> "None",
     parity |-> "None",
     stop_bits |-> "One",
     timeout |-> DurationFromMillis(1)]

SettingsInputs ==
    {ExampleSettings,
     [ExampleSettings EXCEPT !.baud_rate = Named("Baud115200")],
     [ExampleSettings EXCEPT !.baud_rate = BaudOther(4000000),
                             !.timeout = DurationFromMillis(1500)]}

Inputs ==
    { Usize(n) : n \in Speeds } \cup { Baud(b) : b \in BaudRates }
        \cup { IoErr(e) : e \in IoErrors } \cup { Err(e) : e \in Errors }
        \cup { Port(p) : p \in Paths }

Platforms == {"unix", "windows", "none"}

Init ==
    /\ platform \in Platforms
    /\ host \in Hosts
    /\ input \in Inputs
    /\ val = input
    /\ hist = <<>>
    /\ fds = <<>>
    /\ portfd = 0

\* let b = BaudRate::from_speed(n)
FromSpeed ==
    /\ Len(hist) < MaxCalls
    /\ val.ty = "usize"
    /\ val' = Baud(from_speed(val.int))
    /\ hist' = Append(hist, Call("from_speed", val, val'))
    /\ UNCHANGED <<platform, host, input, fds, portfd>>

\* let n = b.speed()
Speed ==
    /\ Len(hist) < MaxCalls
    /\ val.ty = "BaudRate"
    /\ val' = Usize(speed(val.baud))
    /\ hist' = Append(hist, Call("speed", val, val'))
    /\ UNCHANGED <<platform, host, input, fds, portfd>>

\* let e = Error::from(io_error)
ErrorFromIo ==
    /\ Len(hist) < MaxCalls
    /\ val.ty = "io::Error"
    /\ val' = Err(ErrorFromIoError(val.io_error))
    /\ hist' = Append(hist, Call("Error::from", val, val'))
    /\ UNCHANGED <<platform, host, input, fds, portfd>>

\* let io_error = io::Error::from(e)
IoFromError ==
    /\ Len(hist) < MaxCalls
    /\ val.ty = "Error"
    /\ val' = IoErr(IoErrorFromError(val.error))
    /\ hist' = Append(hist, Call("io::Error::from", val, val'))
    /\ UNCHANGED <<platform, host, input, fds, portfd>>

(***************************************************************************)
(* A caller that was given a port path uses the front door.                *)
(***************************************************************************)
\* let s = SerialPortSettings::default()
Default ==
    /\ Len(hist) < MaxCalls
    /\ input.ty = "path"
    /\ val' = Settings(SerialPortSettingsDefault)
    /\ hist' = Append(hist, Call("default", Unit, val'))
    /\ UNCHANGED <<platform, host, input, fds, portfd>>

\* let r = serialport::open(path): the caller keeps one port at a time, and
\* the port it is returned owns the descriptor the platform opened
Open ==
    /\ Len(hist) < MaxCalls
    /\ input.ty = "path"
    /\ portfd = 0
    /\ LET out == open(platform, input.path, host)
       IN  /\ val' = out.ret
           /\ hist' = Append(hist, DoorCall("open", input, out))
           /\ fds' = PlatformOpenDescriptors(out.dispatch, host, fds)
           /\ portfd' = IF out.ret.ty = "Ok" THEN Len(fds') ELSE 0
    /\ UNCHANGED <<platform, host, input>>

\* let r = serialport::open_with_settings(path, &s): s is the value that
\* default() just returned, or one the caller built
OpenWithSettings ==
    /\ Len(hist) < MaxCalls
    /\ input.ty = "path"
    /\ portfd = 0
    /\ \E s \in SettingsInputs \cup
                (IF val.ty = "SerialPortSettings" THEN {val.settings} ELSE {}) :
         LET out == open_with_settings(platform, input.path, s, host)
         IN  /\ val' = out.ret
             /\ hist' = Append(hist, DoorCall("open_with_settings",
                                              [path |-> input.path, settings |-> s], out))
             /\ fds' = PlatformOpenDescriptors(out.dispatch, host, fds)
             /\ portfd' = IF out.ret.ty = "Ok" THEN Len(fds') ELSE 0
    /\ UNCHANGED <<platform, host, input>>

\* let r = serialport::available_ports()
AvailablePorts ==
    /\ Len(hist) < MaxCalls
    /\ input.ty = "path"
    /\ LET out == available_ports(platform, host)
       IN  /\ val' = out.ret
           /\ hist' = Append(hist, DoorCall("available_ports", Unit, out))
    /\ UNCHANGED <<platform, host, input, fds, portfd>>

\* let v = serialport::available_baud_rates()
AvailableBaudRates ==
    /\ Len(hist) < MaxCalls
    /\ input.ty = "path"
    /\ LET out == available_baud_rates(platform)
       IN  /\ val' = out.ret
           /\ hist' = Append(hist, DoorCall("available_baud_rates", Unit, out))
    /\ UNCHANGED <<platform, host, input, fds, portfd>>

(***************************************************************************)
(* A caller that holds an open port uses it and, in the end, drops it.     *)
(***************************************************************************)
\* the baud rates a caller sets
SetterBaudRates == {Named("Baud115200"), BaudOther(4000000)}

\* let r = port.set_baud_rate(b)
SetBaudRate ==
    /\ Len(hist) < MaxCalls
    /\ portfd # 0
    /\ \E b \in SetterBaudRates :
         /\ val' = PortSetBaudRate(platform, b, host)
         /\ hist' = Append(hist, Call("set_baud_rate", Baud(b), val'))
         /\ fds' = IF val'.ty = "Ok"
                   THEN [fds EXCEPT ![portfd].settings.baud_rate = b]
                   ELSE fds
    /\ UNCHANGED <<platform, host, input, portfd>>

\* let r = port.write_request_to_send(level)
WriteRequestToSend ==
    /\ Len(hist) < MaxCalls
    /\ portfd # 0
    /\ \E level \in BOOLEAN :
         /\ val' = ResultOk(Unit)
         /\ hist' = Append(hist, Call("write_request_to_send",
                                      [ty |-> "bool", level |-> level], val'))
         /\ fds' = [fds EXCEPT ![portfd].rts = level]
    /\ UNCHANGED <<platform, host, input, portfd>>

\* drop(port): the port's destructor closes the descriptor it owns
DropPort ==
    /\ portfd # 0
    /\ fds' = Close(fds, portfd)
    /\ portfd' = 0
    /\ val' = Unit
    /\ UNCHANGED <<platform, host, input, hist>>

Next ==
    \/ FromSpeed
    \/ Speed
    \/ ErrorFromIo
    \/ IoFromError
    \/ Default
    \/ Open
    \/ OpenWithSettings
    \/ AvailablePorts
    \/ AvailableBaudRates
    \/ SetBaudRate
    \/ WriteRequestToSend
    \/ DropPort

Spec == Init /\ [][Next]_vars

(***************************************************************************)
(* The properties.  hist[i + 1] is always a call on the value that         *)
(* hist[i] returned when both are conversions, so two adjacent conversion  *)
(* calls are a round trip.                                                 *)
(***************************************************************************)

\* C1: for each of the eleven named variants b, from_speed(b.speed()) is b:
\* whenever speed() was called on a named variant and from_speed on what it
\* returned, from_speed returned that variant.
C1_NamedRoundTrip ==
    \A i \in 1..(Len(hist) - 1) :
        ( /\ hist[i].fn = "speed"
          /\ hist[i + 1].fn = "from_speed"
          /\ hist[i + 1].arg = hist[i].ret
          /\ hist[i].arg.baud.variant \in NamedVariants )
        => hist[i + 1].ret = hist[i].arg

\* C1 witness: Baud19200 went through speed() and from_speed().
C1_Witness ==
    \E i \in 1..(Len(hist) - 1) :
        /\ hist[i].fn = "speed"
        /\ hist[i].arg.baud = [variant |-> "Baud19200"]
        /\ hist[i + 1].fn = "from_speed"
        /\ hist[i + 1].arg.int = 19200

\* C2: for every positive n that is not a named rate, from_speed(n) is
\* BaudOther(n), and BaudOther(n).speed() is n.
C2_OtherSpeeds ==
    \A i \in 1..Len(hist) :
        /\ ( /\ hist[i].fn = "from_speed"
             /\ hist[i].arg.int > 0
             /\ hist[i].arg.int \notin NamedSpeeds )
           => hist[i].ret = [ty |-> "BaudRate",
                             baud |-> [variant |-> "BaudOther", n |-> hist[i].arg.int]]
        /\ ( /\ hist[i].fn = "speed"
             /\ hist[i].arg.baud.variant = "BaudOther"
             /\ hist[i].arg.baud.n > 0
             /\ hist[i].arg.baud.n \notin NamedSpeeds )
           => hist[i].ret = [ty |-> "usize", int |-> hist[i].arg.baud.n]

\* C2 witness: from_speed(4000000) was called and speed() on its result.
C2_Witness ==
    /\ Len(hist) >= 2
    /\ hist[1].fn = "from_speed"
    /\ hist[1].arg.int = 4000000
    /\ hist[2].fn = "speed"
    /\ hist[2].arg.baud.variant = "BaudOther"

\* C3: every call of SerialPortSettings::default() returns 9600 baud, eight
\* data bits, no flow control, no parity, one stop bit and a timeout of 1 ms.
C3_DefaultSettings ==
    \A i \in 1..Len(hist) :
        hist[i].fn = "default"
        => hist[i].ret =
             [ty |-> "SerialPortSettings",
              settings |-> [baud_rate |-> [variant |-> "Baud9600"],
                            data_bits |-> "Eight",
                            flow_control |-> "None",
                            parity |-> "None",
                            stop_bits |-> "One",
                            timeout |-> [secs |-> 0, nanos |-> 1000000]]]

\* C3 witness: default() was called twice.
C3_Witness ==
    \E i, j \in 1..Len(hist) :
        i < j /\ hist[i].fn = "default" /\ hist[j].fn = "default"

\* C4: a native error of kind K, made an Error and made a native error
\* again, has kind K.
C4_IoRoundTrip ==
    \A i \in 1..(Len(hist) - 1) :
        ( /\ hist[i].fn = "Error::from"
          /\ hist[i + 1].fn = "io::Error::from"
          /\ hist[i + 1].arg = hist[i].ret )
        => hist[i + 1].ret.io_error.kind = hist[i].arg.io_error.kind

\* C4 witness: an operating-system error of kind PermissionDenied made the
\* round trip.
C4_Witness ==
    \E i \in 1..(Len(hist) - 1) :
        /\ hist[i].fn = "Error::from"
        /\ hist[i].arg.io_error.repr = "Os"
        /\ hist[i].arg.io_error.kind = "PermissionDenied"
        /\ hist[i + 1].fn = "io::Error::from"

\* C5: turning an Error into a native error maps NoDevice to NotFound,
\* InvalidInput to InvalidInput, Unknown to Other and Io(k) to k, and gives
\* a native error for every Error.
C5_KindTable ==
    \A i \in 1..Len(hist) :
        hist[i].fn = "io::Error::from"
        => /\ hist[i].ret.ty = "io::Error"
           /\ hist[i].ret.io_error.kind =
                CASE hist[i].arg.error.kind.tag = "NoDevice" -> "NotFound"
                  [] hist[i].arg.error.kind.tag = "InvalidInput" -> "InvalidInput"
                  [] hist[i].arg.error.kind.tag = "Unknown" -> "Other"
                  [] hist[i].arg.error.kind.tag = "Io" -> hist[i].arg.error.kind.io

\* C5 witness: an Error of kind NoDevice was turned into a native error.
C5_Witness ==
    \E i \in 1..Len(hist) :
        /\ hist[i].fn = "io::Error::from"
        /\ hist[i].arg.error.kind.tag = "NoDevice"

\* C6: open(p) and open_with_settings(p, default settings) hand the same
\* path and the default settings to the same platform function and return
\* the same result.
C6_OpenIsOpenWithDefaults ==
    \A i, j \in 1..Len(hist) :
        ( /\ hist[i].fn = "open"
          /\ hist[j].fn = "open_with_settings"
          /\ hist[j].arg.path = hist[i].arg.path
          /\ hist[j].arg.settings = [baud_rate |-> [variant |-> "Baud9600"],
                                     data_bits |-> "Eight",
                                     flow_control |-> "None",
                                     parity |-> "None",
                                     stop_bits |-> "One",
                                     timeout |-> [secs |-> 0, nanos |-> 1000000]] )
        => /\ hist[i].ret = hist[j].ret
           /\ hist[i].dispatch = hist[j].dispatch
           /\ hist[i].dispatch.target # "none"
              => /\ hist[i].dispatch.path = hist[i].arg.path
                 /\ hist[i].dispatch.settings = hist[j].arg.settings

\* C6 witness: default(), open_with_settings with its result and open were
\* called on a path that opens.
C6_Witness ==
    /\ Len(hist) >= 3
    /\ hist[1].fn = "default"
    /\ hist[2].fn = "open_with_settings"
    /\ hist[2].arg.settings = hist[1].ret.settings
    /\ hist[3].fn = "open"
    /\ hist[3].ret.ty = "Ok"

\* C7 as stated: with no implementation for the platform, open,
\* open_with_settings, available_ports and available_baud_rates all fail
\* with an error of kind Unknown and a message.
C7_AllFourFailUnknown ==
    platform = "none"
    => \A i \in 1..Len(hist) :
        hist[i].fn \in {"open", "open_with_settings", "available_ports",
                        "available_baud_rates"}
        => /\ hist[i].ret.ty = "Err"
           /\ hist[i].ret.err.kind = [tag |-> "Unknown"]
           /\ hist[i].ret.err.description # ""

\* C7 as amended: with no implementation for the platform, open,
\* open_with_settings and available_ports fail with an error of kind Unknown
\* and a message; available_baud_rates does not fail, it returns an empty
\* sequence.
C7_ThreeFailUnknown ==
    platform = "none"
    => \A i \in 1..Len(hist) :
        /\ hist[i].fn \in {"open", "open_with_settings", "available_ports"}
           => /\ hist[i].ret.ty = "Err"
              /\ hist[i].ret.err.kind = [tag |-> "Unknown"]
              /\ hist[i].ret.err.description # ""
        /\ hist[i].fn = "available_baud_rates"
           => hist[i].ret = [ty |-> "Vec", items |-> <<>>]

\* C7 witness: open_with_settings, available_ports and available_baud_rates
\* were called where the platform has no implementation.
C7_Witness ==
    /\ platform = "none"
    /\ \E i, j, k \in 1..Len(hist) :
        /\ hist[i].fn = "open_with_settings"
        /\ hist[j].fn = "available_ports"
        /\ hist[k].fn = "available_baud_rates"

\* C8: available_baud_rates() returns a sequence of rates on every
\* platform, never an error, and the empty sequence where the platform is
\* neither unix nor windows.
C8_BaudRatesNeverFail ==
    \A i \in 1..Len(hist) :
        hist[i].fn = "available_baud_rates"
        => /\ hist[i].ret.ty = "Vec"
           /\ \A k \in 1..Len(hist[i].ret.items) : hist[i].ret.items[k] \in Nat
           /\ platform \notin {"unix", "windows"} => hist[i].ret.items = <<>>

\* C8 witness: available_baud_rates() was called where the platform is
\* neither unix nor windows.
C8_Witness ==
    /\ platform \notin {"unix", "windows"}
    /\ \E i \in 1..Len(hist) : hist[i].fn = "available_baud_rates"

\* C9 as stated: an Error of any kind, made a native error and made an Error
\* again, has the kind it started with.
C9_ErrorRoundTrip ==
    \A i \in 1..(Len(hist) - 1) :
        ( /\ hist[i].fn = "io::Error::from"
          /\ hist[i + 1].fn = "Error::from"
          /\ hist[i + 1].arg = hist[i].ret )
        => hist[i + 1].ret.error.kind = hist[i].arg.error.kind

\* C9 as amended: an Error of kind Io(k), made a native error and made an
\* Error again, has kind Io(k); one of kind NoDevice, InvalidInput or Unknown
\* comes back with kind Io(NotFound), Io(InvalidInput) or Io(Other), which is
\* not the kind it started with.
C9_ErrorRoundTripWraps ==
    \A i \in 1..(Len(hist) - 1) :
        ( /\ hist[i].fn = "io::Error::from"
          /\ hist[i + 1].fn = "Error::from"
          /\ hist[i + 1].arg = hist[i].ret )
        => LET before == hist[i].arg.error.kind
               after == hist[i + 1].ret.error.kind
           IN  /\ before.tag = "Io" => after = before
               /\ before.tag = "NoDevice" => after = [tag |-> "Io", io |-> "NotFound"]
               /\ before.tag = "InvalidInput"
                  => after = [tag |-> "Io", io |-> "InvalidInput"]
               /\ before.tag = "Unknown" => after = [tag |-> "Io", io |-> "Other"]
               /\ before.tag # "Io" => after # before

\* C9 witness: an Error of kind NoDevice was made a native error and an
\* Error again.
C9_Witness ==
    \E i \in 1..(Len(hist) - 1) :
        /\ hist[i].fn = "io::Error::from"
        /\ hist[i].arg.error.kind.tag = "NoDevice"
        /\ hist[i + 1].fn = "Error::from"

\* C10 as stated: from_speed(b.speed()) is b for every BaudRate b, named or
\* BaudOther(n) for any n.
C10_EveryBaudRoundTrip ==
    \A i \in 1..(Len(hist) - 1) :
        ( /\ hist[i].fn = "speed"
          /\ hist[i + 1].fn = "from_speed"
          /\ hist[i + 1].arg = hist[i].ret )
        => hist[i + 1].ret = hist[i].arg

\* C10 as amended: from_speed and speed are total; from_speed(b.speed()) is
\* b for every named variant b and for BaudOther(n) where n is not one of the
\* eleven named speeds; for BaudOther(n) where n is a named speed it is the
\* named variant of n, which is not b; and from_speed(n).speed() is n for
\* every n.
C10_BaudRoundTrip ==
    \A i \in 1..(Len(hist) - 1) :
        /\ ( /\ hist[i].fn = "speed"
             /\ hist[i + 1].fn = "from_speed"
             /\ hist[i + 1].arg = hist[i].ret )
           => LET b == hist[i].arg.baud
                  back == hist[i + 1].ret.baud
              IN  IF b.variant = "BaudOther" /\ b.n \in NamedSpeeds
                  THEN /\ back.variant \in NamedVariants
                       /\ back # b
                       /\ hist[i].ret.int = b.n
                  ELSE back = b
        /\ ( /\ hist[i].fn = "from_speed"
             /\ hist[i + 1].fn = "speed"
             /\ hist[i + 1].arg = hist[i].ret )
           => hist[i + 1].ret = hist[i].arg

\* C10 witness: BaudOther(9600) went through speed() and from_speed().
C10_Witness ==
    \E i \in 1..(Len(hist) - 1) :
        /\ hist[i].fn = "speed"
        /\ hist[i].arg.baud = [variant |-> "BaudOther", n |-> 9600]
        /\ hist[i + 1].fn = "from_speed"

\* C11: every descriptor the platform opened is released exactly once: the
\* one the caller's open port owns is not closed yet, every other one was
\* closed once, whether its port was dropped or the open that acquired it
\* failed while applying the settings; so right after a failed open or
\* open_with_settings no descriptor is open.
C11_ReleasedOnce ==
    /\ \A fd \in 1..Len(fds) :
        fds[fd].closes = (IF fd = portfd THEN 0 ELSE 1)
    /\ ( /\ hist # <<>>
         /\ hist[Len(hist)].fn \in {"open", "open_with_settings"}
         /\ hist[Len(hist)].ret.ty = "Err" )
       => \A fd \in 1..Len(fds) : fds[fd].closes = 1

\* C11 witness: a port was opened, used and dropped, and then
\* open_with_settings failed with InvalidInput after it had opened the
\* device.
C11_Witness ==
    /\ Len(hist) = 3
    /\ hist[1].fn = "open"
    /\ hist[1].ret.ty = "Ok"
    /\ hist[2].fn \in {"set_baud_rate", "write_request_to_send"}
    /\ hist[3].fn = "open_with_settings"
    /\ hist[3].ret.ty = "Err"
    /\ hist[3].ret.err.kind = [tag |-> "InvalidInput"]
    /\ Len(fds) = 2
    /\ portfd = 0

\* C12: converting a native error of kind k into Error gives kind Io(k) for
\* every k, never NoDevice, InvalidInput or Unknown, and the description is
\* the message the native error displays.
C12_FromIoWraps ==
    \A i \in 1..Len(hist) :
        hist[i].fn = "Error::from"
        => LET e == hist[i].arg.io_error
               r == hist[i].ret.error
           IN  /\ r.kind = [tag |-> "Io", io |-> e.kind]
               /\ r.kind.tag \notin {"NoDevice", "InvalidInput", "Unknown"}
               /\ r.description =
                    CASE e.repr = "Custom" -> e.msg
                      [] e.repr = "Os" /\ e.code = 2 ->
                           "No such file or directory (os error 2)"
                      [] e.repr = "Os" /\ e.code = 13 ->
                           "Permission denied (os error 13)"
                      [] e.repr = "Os" /\ e.code = 25 ->
                           "Inappropriate ioctl for device (os error 25)"

\* C12 witness: an operating-system error of kind NotFound was converted.
C12_Witness ==
    \E i \in 1..Len(hist) :
        /\ hist[i].fn = "Error::from"
        /\ hist[i].arg.io_error.kind = "NotFound"
        /\ hist[i].arg.io_error.repr = "Os"
====
